---- MODULE Spec2Model ----
(***************************************************************************)
(* Model of avasara (src/src/lib.rs) and of its full demo driver           *)
(* (src/examples/avasara-demo-full.rs).                                    *)
(*                                                                         *)
(* One behaviour of the model is one call of a public entry point:         *)
(*   analyze_pitch, interleave_to_mono, compose_to_ogg, or the demo main.  *)
(*                                                                         *)
(* f32 frequencies are modelled as binary floating point numbers with the  *)
(* 24 bit significand of f32 and round-to-nearest-even.  A value is held   *)
(* as an integer count of quanta of 2^-18 Hz, which is the f32 unit in the *)
(* last place of the binade [32 Hz, 64 Hz); every frequency of the model   *)
(* is at least 32 Hz, so every f32 result is a whole number of quanta.     *)
(* The exponent range is not modelled (no overflow, no subnormals).        *)
(***************************************************************************)
EXTENDS Integers, Sequences, FiniteSets

VARIABLES
    entry,            \* the public function this behaviour calls
    pc,               \* position in the entry function
    signal,           \* content of audio_data, as far as the YIN detector sees it
    audio_len,        \* audio.len() / audio_data.len()
    sample_rate,      \* decode's sample rate
    channels,         \* decode's channel count / src_channels
    layout,           \* number of channels interleaved in `audio` right now
    min_frequency,    \* analyze_pitch parameter
    max_frequency,    \* analyze_pitch parameter
    ap_pc,            \* position inside analyze_pitch
    pos,              \* offset of the next chunk of audio_data.chunks(1024)
    attempts,         \* per chunk: its length and what get_pitch returned
    pitch_points,     \* Vec<(f32, f32)> of lib.rs:175
    freqvec_raw,      \* freqvec after the range filter (lib.rs:186-191)
    freqvec_sorted,   \* freqvec after sort_by (lib.rs:196)
    freqvec,          \* the trimmed freqvec (lib.rs:199), returned to the caller
    pitch_report,     \* the returned PitchReport, or NoReport
    analyzed_layout,  \* layout of the buffer handed to analyze_pitch by main
    mono_len,         \* length of the Audio<Ch32, 1> made by interleave_to_mono
    panic_msg,        \* message of the panic that ended the call, or ""
    blocks,           \* number of encode_audio_block calls that returned Ok
    ogg_out,          \* what the encoder wrote so far
    remux,            \* compose_to_ogg's remux argument
    output,           \* the bytes returned (or written by main), or NoOutput
    done              \* the pipeline stages completed so far, in order

vars == <<entry, pc, signal, audio_len, sample_rate, channels, layout,
          min_frequency, max_frequency, ap_pc, pos, attempts, pitch_points,
          freqvec_raw, freqvec_sorted, freqvec, pitch_report, analyzed_layout,
          mono_len, panic_msg, blocks, ogg_out, remux, output, done>>

(***************************************************************************)
(* Bounds of the model.                                                    *)
(***************************************************************************)
\* chunks of a buffer whose content is unconstrained
MaxChunks == 4
\* chunks of a buffer holding one of the scripted signals
LongChunks == 25
\* largest channel count decode reports
MaxChannels == 3

(***************************************************************************)
(* Program constants.                                                      *)
(***************************************************************************)
ChunkSize == 1024
BlockSize == 512
TrimPercent == 10
F32Bits == 24

Min(a, b) == IF a < b THEN a ELSE b

CeilDiv(a, b) == (a + b - 1) \div b

(***************************************************************************)
(* f32 arithmetic.                                                         *)
(***************************************************************************)
QuantaPerHz == 2^18

Hz(n) == n * QuantaPerHz

\* f32 NaN; a negative count of quanta stands for it
NaN == 0 - 1

\* the unit in the last place of the binade that holds a / b
RECURSIVE Ulp(_, _, _)
Ulp(a, b, u) ==
    IF a \div (b * u) < 2^F32Bits THEN u ELSE Ulp(a, b, 2 * u)

\* a / b rounded to the nearest f32, ties to the even significand
F32Div(a, b) ==
    LET u == Ulp(a, b, 1)
        d == b * u
        q == a \div d
        r == a % d
    IN  IF 2 * r > d \/ (2 * r = d /\ q % 2 = 1) THEN (q + 1) * u ELSE q * u

\* x + y of two f32 values
F32Add(x, y) == F32Div(x + y, 1)

\* list.iter().sum::<f32>(): a left fold from zero
RECURSIVE F32Sum(_)
F32Sum(list) ==
    IF list = <<>> THEN 0
    ELSE F32Add(F32Sum(SubSeq(list, 1, Len(list) - 1)), list[Len(list)])

\* fn mean: 0.0 / 0.0 is NaN on an empty slice
mean(list) ==
    IF Len(list) = 0 THEN NaN ELSE F32Div(F32Sum(list), Len(list))

\* fn median on an empty slice: len % 2 == 0 and mid = 0, so mid - 1 underflows
\* (debug build) or the slice range usize::MAX..1 is rejected (release build);
\* both panic
MedianPanics(list) == Len(list) % 2 = 0 /\ Len(list) \div 2 = 0

\* median without the averaging of the two middle elements
median_UpperMiddle(list) == list[(Len(list) \div 2) + 1]

\* fn median, where it does not panic
median(list) ==
    LET len == Len(list)
        mid == len \div 2
    IN  IF len % 2 = 0
        THEN mean(SubSeq(list, mid, mid + 1))
        ELSE list[mid + 1]

(***************************************************************************)
(* Inputs.                                                                 *)
(***************************************************************************)
None == <<>>

\* 11184818 * 2^-16 Hz = 170.66678 Hz, an f32 with significand = 2 (mod 8)
F170 == 11184818 * 4

Frequencies == {Hz(50), F170, Hz(300)}

Clarities == {0, 1}

\* what get_pitch can return for one chunk
Outcomes == {None} \cup (Frequencies \X Clarities)

\* 50.0 and 600.0 are the bounds of the demo (demo-full.rs:37)
FrequencyBounds == {<<Hz(50), Hz(300)>>, <<Hz(40), Hz(350)>>, <<Hz(50), Hz(600)>>}

\* lengths of the last chunk of a buffer
TailLens == {1000, ChunkSize}

Scripts == {"tone", "sweep", "gaps"}

\* get_pitch on chunk i (from 0) of a scripted signal
Script(s, i) ==
    LET cycle == <<Hz(300), F170, Hz(50)>>
    IN  IF s = "tone" THEN <<F170, 1>>
        ELSE IF s = "sweep" THEN <<cycle[(i % 3) + 1], i % 2>>
        ELSE IF i % 4 = 3 THEN None ELSE <<cycle[((2 * i) % 3) + 1], 1>>

\* YINDetector::get_pitch is a black box: any outcome on unconstrained content
GetPitch(i) == IF signal = "any" THEN Outcomes ELSE {Script(signal, i)}

BufferLens(maxChunks) ==
    {0} \cup {(k - 1) * ChunkSize + t : k \in 1..maxChunks, t \in TailLens}

Rates == {0, 44100}

DecodedFrames == {0, 600, 1024}

NoReport == [chunks_used |-> <<0, 0>>, mean |-> 0, median |-> 0,
             lowest |-> 0, highest |-> 0, returned |-> FALSE]

NoOutput == [present |-> FALSE, remuxed |-> FALSE, bytes |-> <<>>]

Written(kind, n) == [kind |-> kind, len |-> n]

(***************************************************************************)
(* analyze_pitch                                                           *)
(***************************************************************************)
\* the range filter with inclusive comparisons
InRange_Inclusive(freq, lo, hi) == freq >= lo /\ freq <= hi

\* the range filter of lib.rs:188
InRange(freq, lo, hi) == freq > lo /\ freq < hi

RECURSIVE RangeFilter(_, _, _)
RangeFilter(points, lo, hi) ==
    IF points = <<>> THEN <<>>
    ELSE LET rest == RangeFilter(Tail(points), lo, hi)
             freq == Head(points)[1]
         IN  IF InRange(freq, lo, hi) THEN <<freq>> \o rest ELSE rest

\* insert x into an ascending list, after its equals (the sort is stable)
RECURSIVE Insert(_, _)
Insert(x, sorted) ==
    IF sorted = <<>> THEN <<x>>
    ELSE IF x < Head(sorted) THEN <<x>> \o sorted
    ELSE <<Head(sorted)>> \o Insert(x, Tail(sorted))

\* freqvec.sort_by(partial_cmp): ascending
RECURSIVE Sort(_)
Sort(list) ==
    IF list = <<>> THEN <<>>
    ELSE Insert(list[Len(list)], Sort(SubSeq(list, 1, Len(list) - 1)))

\* f64::round of a / b: halves away from zero
RoundHalfAway(a, b) == (2 * a + b) \div (2 * b)

\* low with the product truncated instead of rounded
Low_Floor(len) == (len * TrimPercent) \div 100

\* low with the product rounded up
Low_Ceil(len) == (len * TrimPercent + 99) \div 100

\* (freqvec.len() as f64 * 0.10).round() as usize
Low(len) == RoundHalfAway(len * TrimPercent, 100)

\* freqvec.len() - low
High(len) == len - Low(len)

\* freqvec[low..high].to_vec()
Trim(sorted) == SubSeq(sorted, Low(Len(sorted)) + 1, High(Len(sorted)))

\* chunks_used as the exact fraction (len / (audio_len / 1024)) * 100
ChunksUsed(len, total) == <<len * ChunkSize * 100, total>>

\* chunks_exact(1024): a shorter last chunk is not produced
HasChunk_Exact(at, total) == at + ChunkSize <= total

\* audio_data.chunks(1024): there is a next chunk while samples are left
HasChunk(at, total) == at < total

\* audio_data.chunks(1024): the next chunk is 1024 samples, or what is left
ChunkLen(at, total) == Min(ChunkSize, total - at)

\* one iteration of `for chunk in audio_data.chunks(1024)`
Chunk ==
    /\ ap_pc = "chunks"
    /\ HasChunk(pos, audio_len)
    /\ LET n == ChunkLen(pos, audio_len)
       IN  \E est \in GetPitch(Len(attempts)) :
              /\ attempts' = Append(attempts, [len |-> n, est |-> est])
              /\ pitch_points' = IF est = None THEN pitch_points
                                 ELSE Append(pitch_points, est)
              /\ pos' = pos + n
    /\ UNCHANGED <<entry, pc, signal, audio_len, sample_rate, channels, layout,
                   min_frequency, max_frequency, ap_pc, freqvec_raw,
                   freqvec_sorted, freqvec, pitch_report, analyzed_layout,
                   mono_len, panic_msg, blocks, ogg_out, remux, output, done>>

\* lib.rs:186-191, entered when the chunk loop is over
Filter ==
    /\ ap_pc = "chunks"
    /\ ~HasChunk(pos, audio_len)
    /\ freqvec_raw' = RangeFilter(pitch_points, min_frequency, max_frequency)
    /\ ap_pc' = "trim"
    /\ UNCHANGED <<entry, pc, signal, audio_len, sample_rate, channels, layout,
                   min_frequency, max_frequency, pos, attempts, pitch_points,
                   freqvec_sorted, freqvec, pitch_report, analyzed_layout,
                   mono_len, panic_msg, blocks, ogg_out, remux, output, done>>

\* lib.rs:196-199
SortTrim ==
    /\ ap_pc = "trim"
    /\ freqvec_sorted' = Sort(freqvec_raw)
    /\ freqvec' = Trim(Sort(freqvec_raw))
    /\ ap_pc' = "report"
    /\ UNCHANGED <<entry, pc, signal, audio_len, sample_rate, channels, layout,
                   min_frequency, max_frequency, pos, attempts, pitch_points,
                   freqvec_raw, pitch_report, analyzed_layout,
                   mono_len, panic_msg, blocks, ogg_out, remux, output, done>>

\* freqvec.first().unwrap() and freqvec.last().unwrap() panic on None
UnwrapPanics(list) == Len(list) = 0

\* the PitchReport literal of lib.rs:202-208 evaluates mean, median, first and last
ReportPanics(list) == MedianPanics(list) \/ UnwrapPanics(list)

\* a report builder that tolerates an empty list (unwrap_or(NAN), guarded median)
MakeReport_NoPanic(list, total) ==
    [panics |-> FALSE,
     report |-> [chunks_used |-> ChunksUsed(Len(list), total),
                 mean |-> mean(list),
                 median |-> IF list = <<>> THEN NaN ELSE median(list),
                 lowest |-> IF list = <<>> THEN NaN ELSE list[1],
                 highest |-> IF list = <<>> THEN NaN ELSE list[Len(list)],
                 returned |-> TRUE]]

\* the PitchReport literal of lib.rs:202-208: a panic, or the report
MakeReport(list, total) ==
    IF ReportPanics(list)
    THEN [panics |-> TRUE, report |-> NoReport]
    ELSE [panics |-> FALSE,
          report |-> [chunks_used |-> ChunksUsed(Len(list), total),
                      mean |-> mean(list),
                      median |-> median(list),
                      lowest |-> list[1],
                      highest |-> list[Len(list)],
                      returned |-> TRUE]]

\* lib.rs:202-210
BuildReport ==
    /\ ap_pc = "report"
    /\ IF MakeReport(freqvec, audio_len).panics
       THEN /\ ap_pc' = "panicked"
            /\ pc' = "panicked"
            /\ panic_msg' = "analyze_pitch"
            /\ UNCHANGED <<pitch_report, done>>
       ELSE /\ pitch_report' = MakeReport(freqvec, audio_len).report
            /\ ap_pc' = "done"
            /\ pc' = IF entry = "main" THEN "interleave" ELSE "returned"
            /\ done' = IF entry = "main" THEN Append(done, "analyze") ELSE done
            /\ UNCHANGED panic_msg
    /\ UNCHANGED <<entry, signal, audio_len, sample_rate, channels, layout,
                   min_frequency, max_frequency, pos, attempts, pitch_points,
                   freqvec_raw, freqvec_sorted, freqvec, analyzed_layout,
                   mono_len, blocks, ogg_out, remux, output>>

(***************************************************************************)
(* interleave_to_mono                                                      *)
(***************************************************************************)
\* panic!("more than 2 channels provided")
MsgTooMany == "more than 2 channels provided"

\* panic!("No channels? (megamind stare)")
MsgNoChannels == "No channels? (megamind stare)"

\* interleave_to_mono that takes every count above 1 for stereo
InterleaveToMono_AnyStereo(len, src_channels) ==
    IF src_channels = 1 THEN [ok |-> TRUE, len |-> len, msg |-> ""]
    ELSE IF src_channels >= 2 THEN [ok |-> TRUE, len |-> len \div 2, msg |-> ""]
    ELSE [ok |-> FALSE, len |-> 0, msg |-> MsgNoChannels]

\* the result of interleave_to_mono: a mono buffer of one sample per frame, or
\* one of the two panics
InterleaveToMono(len, src_channels) ==
    IF src_channels = 1 THEN [ok |-> TRUE, len |-> len, msg |-> ""]
    ELSE IF src_channels = 2 THEN [ok |-> TRUE, len |-> len \div 2, msg |-> ""]
    ELSE IF src_channels > 2 THEN [ok |-> FALSE, len |-> 0, msg |-> MsgTooMany]
    ELSE [ok |-> FALSE, len |-> 0, msg |-> MsgNoChannels]

\* the call of interleave_to_mono (lib.rs:269, demo-full.rs:44, or the entry)
Interleave ==
    /\ pc = "interleave"
    /\ LET r == InterleaveToMono(audio_len, channels)
       IN  IF r.ok
           THEN /\ mono_len' = r.len
                /\ layout' = 1
                /\ done' = Append(done, "reduce")
                /\ pc' = IF entry = "interleave_to_mono" THEN "returned"
                         ELSE "encoder_new"
                /\ UNCHANGED panic_msg
           ELSE /\ panic_msg' = r.msg
                /\ pc' = "panicked"
                /\ UNCHANGED <<mono_len, layout, done>>
    /\ UNCHANGED <<entry, signal, audio_len, sample_rate, channels,
                   min_frequency, max_frequency, ap_pc, pos, attempts,
                   pitch_points, freqvec_raw, freqvec_sorted, freqvec,
                   pitch_report, analyzed_layout, blocks, ogg_out, remux,
                   output>>

(***************************************************************************)
(* compose_to_ogg and the demo main                                        *)
(***************************************************************************)
\* decode(src): panics (expect, unimplemented!, panic!) or returns the samples,
\* the sample rate and the channel count
Decode ==
    /\ pc = "decode"
    /\ \/ /\ pc' = "panicked"
          /\ panic_msg' = "decode"
          /\ UNCHANGED <<audio_len, sample_rate, channels, layout, done>>
       \/ \E r \in Rates, c \in 0..MaxChannels, f \in DecodedFrames :
             /\ audio_len' = f * c
             /\ sample_rate' = r
             /\ channels' = c
             /\ layout' = c
             /\ done' = Append(done, "decode")
             /\ pc' = "validate"
             /\ UNCHANGED panic_msg
    /\ UNCHANGED <<entry, signal, min_frequency, max_frequency, ap_pc, pos,
                   attempts, pitch_points, freqvec_raw, freqvec_sorted, freqvec,
                   pitch_report, analyzed_layout, mono_len, blocks, ogg_out,
                   remux, output>>

\* the validation with && in place of ||
DecodeBroken_Both(rate, chans) == (rate = 0) /\ (chans = 0)

\* the condition of lib.rs:261 and demo-full.rs:26
DecodeBroken(rate, chans) == (rate = 0) \/ (chans = 0)

\* lib.rs:261-264 (panic!) and demo-full.rs:26-29 (exit(-1))
Validate ==
    /\ pc = "validate"
    /\ IF DecodeBroken(sample_rate, channels)
       THEN /\ pc' = IF entry = "main" THEN "exited" ELSE "panicked"
            /\ panic_msg' = IF entry = "main" THEN panic_msg
                            ELSE "Sample rate or channel count was zero"
            /\ UNCHANGED done
       ELSE /\ pc' = IF entry = "main" THEN "analyze" ELSE "interleave"
            /\ done' = Append(done, "validate")
            /\ UNCHANGED panic_msg
    /\ UNCHANGED <<entry, signal, audio_len, sample_rate, channels, layout,
                   min_frequency, max_frequency, ap_pc, pos, attempts,
                   pitch_points, freqvec_raw, freqvec_sorted, freqvec,
                   pitch_report, analyzed_layout, mono_len, blocks, ogg_out,
                   remux, output>>

\* demo-full.rs:37: analyze_pitch(&audio, sample_rate, 50.0, 600.0)
MainAnalyze ==
    /\ entry = "main"
    /\ pc = "analyze"
    /\ min_frequency' = Hz(50)
    /\ max_frequency' = Hz(600)
    /\ analyzed_layout' = layout
    /\ ap_pc' = "chunks"
    /\ pos' = 0
    /\ pc' = "analyzing"
    /\ UNCHANGED <<entry, signal, audio_len, sample_rate, channels, layout,
                   attempts, pitch_points, freqvec_raw, freqvec_sorted, freqvec,
                   pitch_report, mono_len, panic_msg, blocks, ogg_out, remux,
                   output, done>>

\* VorbisEncoder::new(...).unwrap(), lib.rs:275-286 and demo-full.rs:51-63
EncoderNew ==
    /\ pc = "encoder_new"
    /\ \/ /\ pc' = "encode"
          /\ ogg_out' = <<Written("headers", 0)>>
          /\ UNCHANGED panic_msg
       \/ /\ pc' = "panicked"
          /\ panic_msg' = "VorbisEncoder::new"
          /\ UNCHANGED ogg_out
    /\ UNCHANGED <<entry, signal, audio_len, sample_rate, channels, layout,
                   min_frequency, max_frequency, ap_pc, pos, attempts,
                   pitch_points, freqvec_raw, freqvec_sorted, freqvec,
                   pitch_report, analyzed_layout, mono_len, blocks, remux,
                   output, done>>

\* one iteration of `for i in audio.as_f32_slice().chunks(512)`
EncodeBlock ==
    /\ pc = "encode"
    /\ blocks * BlockSize < mono_len
    /\ \/ /\ blocks' = blocks + 1
          /\ ogg_out' = Append(ogg_out,
                 Written("block", Min(BlockSize, mono_len - blocks * BlockSize)))
          /\ UNCHANGED <<pc, panic_msg>>
       \/ /\ pc' = "panicked"
          /\ panic_msg' = "encode_audio_block"
          /\ UNCHANGED <<blocks, ogg_out>>
    /\ UNCHANGED <<entry, signal, audio_len, sample_rate, channels, layout,
                   min_frequency, max_frequency, ap_pc, pos, attempts,
                   pitch_points, freqvec_raw, freqvec_sorted, freqvec,
                   pitch_report, analyzed_layout, mono_len, remux, output, done>>

\* encoder.finish().unwrap() once the block loop is over, then the branch on
\* remux (lib.rs:293-307); main writes ogg_out to the file (demo-full.rs:69-93)
Finish ==
    /\ pc = "encode"
    /\ blocks * BlockSize >= mono_len
    /\ \/ /\ ogg_out' = Append(ogg_out, Written("eos", 0))
          /\ done' = done \o <<"encode", "finalize">>
          /\ IF entry = "compose_to_ogg" /\ remux
             THEN pc' = "remux" /\ UNCHANGED output
             ELSE /\ pc' = "returned"
                  /\ output' = [present |-> TRUE, remuxed |-> FALSE,
                                bytes |-> ogg_out']
          /\ UNCHANGED panic_msg
       \/ /\ pc' = "panicked"
          /\ panic_msg' = "finish"
          /\ done' = Append(done, "encode")
          /\ UNCHANGED <<ogg_out, output>>
    /\ UNCHANGED <<entry, signal, audio_len, sample_rate, channels, layout,
                   min_frequency, max_frequency, ap_pc, pos, attempts,
                   pitch_points, freqvec_raw, freqvec_sorted, freqvec,
                   pitch_report, analyzed_layout, mono_len, blocks, remux>>

\* OggToOgg::new_with_defaults().remux(...).unwrap(), lib.rs:295-303
Remux ==
    /\ pc = "remux"
    /\ \/ /\ output' = [present |-> TRUE, remuxed |-> TRUE, bytes |-> ogg_out]
          /\ done' = Append(done, "remux")
          /\ pc' = "returned"
          /\ UNCHANGED panic_msg
       \/ /\ pc' = "panicked"
          /\ panic_msg' = "remux"
          /\ UNCHANGED <<output, done>>
    /\ UNCHANGED <<entry, signal, audio_len, sample_rate, channels, layout,
                   min_frequency, max_frequency, ap_pc, pos, attempts,
                   pitch_points, freqvec_raw, freqvec_sorted, freqvec,
                   pitch_report, analyzed_layout, mono_len, blocks, ogg_out,
                   remux>>

(***************************************************************************)
(* Specification                                                           *)
(***************************************************************************)
\* the state shared by every entry point before its first step
Fresh ==
    /\ pos = 0
    /\ attempts = <<>>
    /\ pitch_points = <<>>
    /\ freqvec_raw = <<>>
    /\ freqvec_sorted = <<>>
    /\ freqvec = <<>>
    /\ pitch_report = NoReport
    /\ analyzed_layout = 0
    /\ mono_len = 0
    /\ panic_msg = ""
    /\ blocks = 0
    /\ ogg_out = <<>>
    /\ output = NoOutput
    /\ done = <<>>

\* a call of analyze_pitch(audio_data, sample_rate, min_frequency, max_frequency)
InitAnalyzePitch ==
    /\ entry = "analyze_pitch"
    /\ pc = "call"
    /\ ap_pc = "chunks"
    /\ signal \in {"any"} \cup Scripts
    /\ audio_len \in BufferLens(IF signal = "any" THEN MaxChunks ELSE LongChunks)
    /\ sample_rate = 44100
    /\ channels = 1
    /\ layout = 1
    /\ \E b \in FrequencyBounds : min_frequency = b[1] /\ max_frequency = b[2]
    /\ remux = FALSE

\* a call of interleave_to_mono(audio, sample_rate, src_channels)
InitInterleaveToMono ==
    /\ entry = "interleave_to_mono"
    /\ pc = "interleave"
    /\ ap_pc = "idle"
    /\ signal = "any"
    /\ channels \in 0..MaxChannels
    /\ audio_len \in {f * channels : f \in DecodedFrames}
    /\ sample_rate \in Rates \ {0}
    /\ layout = channels
    /\ min_frequency = 0
    /\ max_frequency = 0
    /\ remux = FALSE

\* a call of compose_to_ogg(src, prefix, stream_serial, target_quality, remux)
\* or a run of the demo main
InitPipeline ==
    /\ entry \in {"compose_to_ogg", "main"}
    /\ pc = "decode"
    /\ ap_pc = "idle"
    /\ signal = "any"
    /\ audio_len = 0
    /\ sample_rate = 0
    /\ channels = 0
    /\ layout = 0
    /\ min_frequency = 0
    /\ max_frequency = 0
    /\ remux \in (IF entry = "main" THEN {FALSE} ELSE BOOLEAN)

Init == Fresh /\ (InitAnalyzePitch \/ InitInterleaveToMono \/ InitPipeline)

Next ==
    \/ Chunk
    \/ Filter
    \/ SortTrim
    \/ BuildReport
    \/ Interleave
    \/ Decode
    \/ Validate
    \/ MainAnalyze
    \/ EncoderNew
    \/ EncodeBlock
    \/ Finish
    \/ Remux

Spec == Init /\ [][Next]_vars

(***************************************************************************)
(* Properties                                                              *)
(***************************************************************************)
RECURSIVE Sum(_)
Sum(list) == IF list = <<>> THEN 0 ELSE Head(list) + Sum(Tail(list))

Abs(x) == IF x < 0 THEN 0 - x ELSE x

Count(x, list) == Cardinality({i \in 1..Len(list) : list[i] = x})

Ascending(list) == \A i \in 1..(Len(list) - 1) : list[i] <= list[i + 1]

Strictly(freq) == min_frequency < freq /\ freq < max_frequency

\* the chunk loop of analyze_pitch is over
Sampled == ap_pc \in {"trim", "report", "done", "panicked"}

\* the range filter of analyze_pitch has run
Filtered == Sampled

\* the sort and the trim of analyze_pitch have run
Trimmed == ap_pc \in {"report", "done", "panicked"}

\* analyze_pitch is over
Ended == ap_pc \in {"done", "panicked"}

NoNaN(r) == r.mean # NaN /\ r.median # NaN /\ r.lowest # NaN /\ r.highest # NaN

\* C1: when no candidate has its frequency strictly between min_frequency and
\* max_frequency (there is none at all, or all are outside), analyze_pitch ends
\* in a panic and returns no PitchReport; no returned report has a NaN field.
C1_EmptyCandidatesPanic ==
    /\ (Ended /\ \A i \in 1..Len(pitch_points) : ~Strictly(pitch_points[i][1]))
          => (ap_pc = "panicked" /\ pitch_report = NoReport)
    /\ pitch_report.returned => NoNaN(pitch_report)

\* analyze_pitch has panicked on candidates that all lie outside the range
C1_Witness ==
    /\ ap_pc = "panicked"
    /\ Len(pitch_points) >= 2
    /\ \A i \in 1..Len(pitch_points) : ~Strictly(pitch_points[i][1])

\* C2: the trimmed vector is the slice [low, len - low) of the ascending sort
\* of the range-filtered vector, low = (len + 5) div 10; it is ascending, a
\* sub-multiset of the filtered vector, and len - 2 * low <= len long.
C2_TrimIsCentralSlice ==
    Trimmed =>
        LET len == Len(freqvec_raw)
            low == (len + 5) \div 10
        IN  /\ Len(freqvec_sorted) = len
            /\ Ascending(freqvec_sorted)
            /\ \A x \in Frequencies :
                  Count(x, freqvec_sorted) = Count(x, freqvec_raw)
            /\ Len(freqvec) = len - 2 * low
            /\ Len(freqvec) <= len
            /\ \A i \in 1..Len(freqvec) : freqvec[i] = freqvec_sorted[low + i]
            /\ Ascending(freqvec)
            /\ \A x \in Frequencies : Count(x, freqvec) <= Count(x, freqvec_raw)

\* a filtered vector of 15 or more values, not in order, was trimmed by 2 a side
C2_Witness ==
    /\ ap_pc = "done"
    /\ Len(freqvec_raw) >= 15
    /\ ~Ascending(freqvec_raw)
    /\ Len(freqvec) = Len(freqvec_raw) - 4
    /\ freqvec[1] # freqvec[Len(freqvec)]

\* C3: the range filter keeps exactly the candidates with
\* min_frequency < frequency < max_frequency, in order, whatever their clarity;
\* a frequency equal to a bound is rejected.
C3_StrictRangeFilter ==
    Filtered =>
        LET kept == SelectSeq(pitch_points, LAMBDA p : Strictly(p[1]))
        IN  /\ Len(freqvec_raw) = Len(kept)
            /\ \A i \in 1..Len(kept) : freqvec_raw[i] = kept[i][1]
            /\ \A i \in 1..Len(freqvec_raw) :
                  freqvec_raw[i] # min_frequency /\ freqvec_raw[i] # max_frequency

\* the filter saw a candidate on each bound and kept candidates of both clarities
C3_Witness ==
    /\ ap_pc = "trim"
    /\ \E i \in 1..Len(pitch_points) : pitch_points[i][1] = min_frequency
    /\ \E i \in 1..Len(pitch_points) : pitch_points[i][1] = max_frequency
    /\ \E i \in 1..Len(pitch_points) :
          Strictly(pitch_points[i][1]) /\ pitch_points[i][2] = 0
    /\ \E i \in 1..Len(pitch_points) :
          Strictly(pitch_points[i][1]) /\ pitch_points[i][2] = 1
    /\ Len(freqvec_raw) = 2

\* interleave_to_mono has been called and is over
Interleaved ==
    \/ entry = "interleave_to_mono" /\ pc \in {"returned", "panicked"}
    \/ "reduce" \in {done[i] : i \in 1..Len(done)}
    \/ panic_msg \in {MsgTooMany, MsgNoChannels}

\* C4: interleave_to_mono fails and makes no buffer for every channel count
\* other than 1 and 2, with one message for 0 and another for more than 2; for
\* 1 and 2 it does not fail.
C4_UnsupportedChannels ==
    Interleaved =>
        /\ channels \in {1, 2} <=> "reduce" \in {done[i] : i \in 1..Len(done)}
        /\ channels \in {1, 2} => (pc # "panicked" \/ panic_msg \notin {MsgTooMany, MsgNoChannels})
        /\ channels \notin {1, 2} =>
              /\ pc = "panicked"
              /\ mono_len = 0
              /\ layout = channels
              /\ output = NoOutput
        /\ channels = 0 => panic_msg = MsgNoChannels
        /\ channels > 2 => panic_msg = MsgTooMany
        /\ MsgNoChannels # MsgTooMany

\* interleave_to_mono was called with more than 2 channels
C4_Witness ==
    /\ entry = "interleave_to_mono"
    /\ pc = "panicked"
    /\ channels > 2
    /\ audio_len > 0

\* the candidates of the chunks that gave an estimate, in chunk order
Survivors == SelectSeq(attempts, LAMBDA a : a.est # None)

\* C5: get_pitch is called on ceil(L / 1024) consecutive chunks, all of 1024
\* samples but possibly a shorter last one; a chunk with no estimate is
\* dropped; the candidates are those of the other chunks, in chunk order, so
\* there are at most ceil(L / 1024) of them.
C5_ChunkSampler ==
    LET n == Len(attempts)
    IN  /\ \A i \in 1..(n - 1) : attempts[i].len = ChunkSize
        /\ n > 0 => attempts[n].len \in 1..ChunkSize
        /\ pos = Sum([i \in 1..n |-> attempts[i].len])
        /\ pos <= audio_len
        /\ Len(pitch_points) = Len(Survivors)
        /\ \A i \in 1..Len(Survivors) : pitch_points[i] = Survivors[i].est
        /\ Sampled =>
              /\ n = CeilDiv(audio_len, ChunkSize)
              /\ pos = audio_len
              /\ Len(pitch_points) <= CeilDiv(audio_len, ChunkSize)

\* a buffer with a short last chunk was sampled, a chunk was dropped, and the
\* call went on to return
C5_Witness ==
    /\ ap_pc = "done"
    /\ Len(attempts) >= 3
    /\ attempts[Len(attempts)].len < ChunkSize
    /\ attempts[Len(attempts)].est # None
    /\ \E i \in 1..Len(attempts) : attempts[i].est = None
    /\ pitch_points[1] # pitch_points[Len(pitch_points)]

\* the unit in the last place of the f32 binade that holds v
UlpOf(v) == Ulp(v, 1, 1)

\* v is an f32
Representable(v) == v % UlpOf(v) = 0

\* no addition of the left-to-right sum of list is rounded
ExactSum(list) ==
    \A k \in 1..Len(list) : Representable(Sum(SubSeq(list, 1, k)))

\* C6 as stated, its equalities read up to f32 rounding: lowest and highest
\* are the first and last element, median is the middle element or the
\* average of the two middle ones, mean is the arithmetic average, and median
\* and mean both lie between lowest and highest.
C6_StatisticsWithinExtrema ==
    pitch_report.returned =>
        LET n == Len(freqvec)
            r == pitch_report
            a == freqvec[n \div 2]
            b == freqvec[(n \div 2) + 1]
        IN  /\ r.lowest = freqvec[1]
            /\ r.highest = freqvec[n]
            /\ n % 2 = 1 => r.median = freqvec[(n + 1) \div 2]
            /\ n % 2 = 0 => Abs(2 * r.median - (a + b)) <= UlpOf(r.median)
            /\ Abs(n * r.mean - Sum(freqvec)) <= 2 * n * UlpOf(Sum(freqvec))
            /\ r.lowest <= r.median /\ r.median <= r.highest
            /\ r.lowest <= r.mean /\ r.mean <= r.highest

\* C6 amended: lowest and highest are the first and last element; median is
\* the middle element, or the average of the two middle ones rounded to f32
\* (within half a unit in the last place), and lies between lowest and
\* highest; mean is the average up to f32 rounding: within 2 units in the last
\* place of the sum, and between lowest and highest when no addition of the
\* sum is rounded.
C6_RoundedStatistics ==
    pitch_report.returned =>
        LET n == Len(freqvec)
            r == pitch_report
            a == freqvec[n \div 2]
            b == freqvec[(n \div 2) + 1]
        IN  /\ r.lowest = freqvec[1]
            /\ r.highest = freqvec[n]
            /\ n % 2 = 1 => r.median = freqvec[(n + 1) \div 2]
            /\ n % 2 = 0 =>
                  /\ Representable(r.median)
                  /\ Abs(2 * r.median - (a + b)) <= UlpOf(r.median)
            /\ r.lowest <= r.median /\ r.median <= r.highest
            /\ Representable(r.mean)
            /\ Abs(n * r.mean - Sum(freqvec)) <= 2 * n * UlpOf(Sum(freqvec))
            /\ ExactSum(freqvec) =>
                  /\ 2 * Abs(n * r.mean - Sum(freqvec)) <= n * UlpOf(r.mean)
                  /\ r.lowest <= r.mean /\ r.mean <= r.highest

\* a report on an even number of values whose two middle values differ and
\* whose sum was rounded
C6_Witness ==
    /\ pitch_report.returned
    /\ Len(freqvec) % 2 = 0
    /\ freqvec[Len(freqvec) \div 2] # freqvec[(Len(freqvec) \div 2) + 1]
    /\ ~ExactSum(freqvec)
    /\ Len(freqvec) * pitch_report.mean # Sum(freqvec)

StageOrder == <<"decode", "validate", "reduce", "encode", "finalize", "remux">>

Stages(k) == SubSeq(StageOrder, 1, k)

Completed(stage) == stage \in {done[i] : i \in 1..Len(done)}

\* C7: compose_to_ogg runs decode, validate, reduce, encode, finalize and,
\* only when asked, remux, in this order; a stage starts only after all the
\* ones before it completed; validation passes only a non-zero sample rate and
\* channel count; a run that fails returns no bytes.
C7_ComposeStaging ==
    entry = "compose_to_ogg" =>
        /\ \E k \in 0..Len(StageOrder) : done = Stages(k)
        /\ pc = "decode" => done = Stages(0)
        /\ pc = "validate" => done = Stages(1)
        /\ pc = "interleave" => done = Stages(2)
        /\ pc \in {"encoder_new", "encode"} => done = Stages(3)
        /\ pc = "remux" => done = Stages(5) /\ remux
        /\ pc = "returned" => done = Stages(IF remux THEN 6 ELSE 5)
        /\ Completed("validate") => sample_rate > 0 /\ channels > 0
        /\ Completed("reduce") => channels \in {1, 2}
        /\ Completed("encode") => blocks = CeilDiv(mono_len, BlockSize)
        /\ Completed("remux") => remux
        /\ pc = "panicked" => output = NoOutput
        /\ output.present <=> pc = "returned"
        /\ output.present => (output.remuxed <=> remux)

\* compose_to_ogg returned the remuxed encoding of a stereo file
C7_Witness ==
    /\ entry = "compose_to_ogg"
    /\ pc = "returned"
    /\ remux
    /\ channels = 2
    /\ blocks >= 2
    /\ output.present

\* C8: the buffer that pitch analysis is given in the pipeline is
\* single-channel: channel reduction comes before the chunk sampler.
C8_AnalysisOnMono ==
    (entry = "main" /\ ap_pc # "idle") => analyzed_layout = 1

\* C9: chunks_used is between 0 and 100, that is, the number of trimmed
\* frequencies times 1024 is at most the length of the buffer.
C9_ChunksUsedAtMost100 ==
    pitch_report.returned =>
        /\ pitch_report.chunks_used[1] >= 0
        /\ pitch_report.chunks_used[1] <= 100 * pitch_report.chunks_used[2]
        /\ Len(freqvec) * ChunkSize <= audio_len

\* C10: a non-empty range-filtered vector leaves at least one value after the
\* trim, and analyze_pitch then returns a report without NaN and a non-empty
\* vector; it panics only when the range-filtered vector is empty.
C10_TrimKeepsOne ==
    /\ (Trimmed /\ Len(freqvec_raw) >= 1) => Len(freqvec) >= 1
    /\ (Ended /\ Len(freqvec_raw) >= 1) =>
          /\ ap_pc = "done"
          /\ pitch_report.returned
          /\ NoNaN(pitch_report)
          /\ Len(freqvec) >= 1
    /\ ap_pc = "panicked" => freqvec_raw = <<>>

\* analyze_pitch returned on a range-filtered vector of 5 values
C10_Witness ==
    /\ ap_pc = "done"
    /\ Len(freqvec_raw) = 5
    /\ Len(freqvec) = 3
    /\ pitch_report.returned

====
